---- MODULE Spec2Model ----
(***************************************************************************)
(* A model of the htpasswd crates: the nom-based .htpasswd parser          *)
(* (parse.rs), PasswordDB::validate and the error rendering (lib.rs,       *)
(* errors.rs), and the Watcher of htpasswd_watcher.                        *)
(*                                                                         *)
(* Text is a sequence of one-character strings.  A Span is nom_locate's    *)
(* LocatedSpan<CompleteStr>: the whole buffer s, the byte offset off of    *)
(* the fragment in it, and the 1-based line of the fragment's first byte.  *)
(* The input type is CompleteStr, so at_eof() is always true and nom's     *)
(* need_more_err turns every Incomplete into an Error: no parser of this   *)
(* model returns Incomplete.                                               *)
(***************************************************************************)
EXTENDS Integers, Sequences, FiniteSets, TLC

VARIABLES
    written,      \* the lines the environment has written to the backing file
    file,         \* the contents of the backing file: the lines joined by "\n"
    db,           \* the result of parse_htpasswd_str on the file, once called
    request,      \* the (user, password) given to validate, once called
    outcome,      \* what validate returned
    verify_call,  \* the call validate made to bcrypt::verify, with its answer
    watcher,      \* the Watcher, once Watcher::new has returned Ok
    new_result,   \* what Watcher::new returned
    pending,      \* file-change notifications raised and not yet delivered
    call,         \* the request Authenticate::call was given and what it saw
    reply,        \* what Authenticate::call answered
    upstream_calls \* the number of calls made to the upstream service

vars == <<written, file, db, request, outcome, verify_call, watcher, new_result,
          pending, call, reply, upstream_calls>>

\* The largest number of lines the backing file is given.
MaxLines == 2

\* The largest number of file-change notifications in flight.
MaxPending == 1

----------------------------------------------------------------------------
(* Text helpers                                                            *)

NL == "\n"
CR == "\r"

Max(S) == CHOOSE m \in S : \A k \in S : k <= m
Min(S) == CHOOSE m \in S : \A k \in S : m <= k

\* LocatedSpan::new: offset 0, line 1.
Span_new(text) == [s |-> text, off |-> 0, line |-> 1]

\* InputLength::input_len of a span: the length of its fragment.
input_len(i) == Len(i.s) - i.off

\* Slice<RangeFrom>: drop n bytes; the line grows by the newlines dropped.
slice_from(i, n) ==
    [s |-> i.s, off |-> i.off + n,
     line |-> i.line + Cardinality({k \in (i.off + 1)..(i.off + n) : i.s[k] = NL})]

\* Slice<RangeTo>: the first n bytes of the fragment, as text.
slice_to(i, n) == SubSeq(i.s, i.off + 1, i.off + n)

\* LocatedSpan::get_column: bytes since the last newline before the
\* fragment, 1-based.
get_column(i) ==
    LET nls == {k \in 1..i.off : i.s[k] = NL}
    IN  IF nls = {} THEN i.off + 1 ELSE i.off - (Max(nls) - 1)

\* The absent value.
None == [t |-> "None"]

\* IResult values.
Ok(rest, out) == [t |-> "Ok", rest |-> rest, out |-> out]
Error(at, code) == [t |-> "Error", at |-> at, code |-> code]
Failure(at, code) == [t |-> "Failure", at |-> at, code |-> code]

\* ErrorKind: a nom kind, or Custom(v).
Kind(v) == [custom |-> FALSE, v |-> v]
Custom(v) == [custom |-> TRUE, v |-> v]

----------------------------------------------------------------------------------------------------------------------------------------
(* nom primitives, as the parsers of parse.rs use them                     *)

\* Compare: "Ok" when the fragment starts with t; a shorter fragment that
\* agrees so far is "Incomplete"; otherwise "Error".
compare(i, t) ==
    LET n == IF input_len(i) < Len(t) THEN input_len(i) ELSE Len(t)
    IN  IF \E k \in 1..n : i.s[i.off + k] # t[k] THEN "Error"
        ELSE IF input_len(i) >= Len(t) THEN "Ok" ELSE "Incomplete"

\* tag!(t)
tag(i, t) ==
    IF compare(i, t) = "Ok" THEN Ok(slice_from(i, Len(t)), t)
    ELSE Error(i, Kind("Tag"))

\* InputIter::position: the 1-based place in the fragment of its first
\* character in S, 0 when there is none.
position(i, S) ==
    LET hits == {k \in 1..input_len(i) : i.s[i.off + k] \in S}
    IN  IF hits = {} THEN 0 ELSE Min(hits)

\* split_at_position1, p being the place of the first character at which the
\* predicate holds.
split_at_position1(i, p) ==
    IF p = 1 THEN Error(i, Kind("IsNot"))
    ELSE IF p > 1 THEN Ok(slice_from(i, p - 1), slice_to(i, p - 1))
    ELSE IF input_len(i) = 0 THEN Error(i, Kind("IsNot"))
    ELSE Ok(slice_from(i, input_len(i)), slice_to(i, input_len(i)))

\* is_not!(":")
is_not_colon(i) == split_at_position1(i, position(i, {":"}))

\* nom::not_line_ending, p being the place of the first CR or NL: a CR that
\* does not start CR NL is an Error at the input.
not_line_ending_at(i, p) ==
    IF p = 0 THEN Ok(slice_from(i, input_len(i)), slice_to(i, input_len(i)))
    ELSE IF i.s[i.off + p] = CR /\ compare(slice_from(i, p - 1), <<CR, NL>>) # "Ok"
         THEN Error(i, Kind("Tag"))
    ELSE Ok(slice_from(i, p - 1), slice_to(i, p - 1))

not_line_ending(i) == not_line_ending_at(i, position(i, {CR, NL}))

\* nom::line_ending
line_ending(i) ==
    IF compare(i, <<NL>>) = "Ok" THEN Ok(slice_from(i, 1), <<NL>>)
    ELSE IF compare(i, <<CR, NL>>) = "Ok" THEN Ok(slice_from(i, 2), <<CR, NL>>)
    ELSE Error(i, Kind("CrLf"))

\* eof!()
eof(i) == IF input_len(i) = 0 THEN Ok(i, <<>>) ELSE Error(i, Kind("Eof"))

\* impl From<u32> for ParseErrorKind
ParseErrorKind_from_u32(n) == "Unknown"

\* fix_error!(ParseErrorKind, ..): Custom(u32) becomes
\* Custom(ParseErrorKind::from(u32)); the other kinds stay.
fix_error(r) ==
    IF r.t = "Ok" THEN r
    ELSE [r EXCEPT !.code = IF r.code.custom
                            THEN Custom(ParseErrorKind_from_u32(r.code.v))
                            ELSE r.code]

\* return_error!(Custom(kind), ..) applied at input i: an Error or a Failure
\* of the child becomes Failure(Code(i, Custom(kind))).
return_error(i, kind, r) ==
    IF r.t = "Ok" THEN r ELSE Failure(i, Custom(kind))

\* One step of do_parse!: r's error is the result, else next.
and_then(r, next) == IF r.t # "Ok" THEN r ELSE next

\* One arm of alt!: the next alternative is tried after an Error only; an Ok
\* or a Failure ends the alt.
or_else(r, next) == IF r.t # "Error" THEN r ELSE next

\* opt!: an Error of the child is Ok(None) at the same input.
opt(i, r) == IF r.t = "Error" THEN Ok(i, <<>>) ELSE r

----------------------------------------------------------------------------
(* The parsers of parse.rs                                                 *)

\* PasswordHash values: the scheme and the stored text.
PasswordHash(scheme, pw) == [scheme |-> scheme, hash |-> pw]

\* not_record_ending without its check for an empty line.
accept_empty(r) == r

\* The match of not_record_ending on the result of not_line_ending: an empty
\* line is a Failure with Custom(0u32) at the rest.
reject_empty(r) ==
    IF r.t = "Ok" /\ Len(r.out) = 0 THEN Failure(r.rest, Custom("0")) ELSE r

not_record_ending(i) == reject_empty(not_line_ending(i))

\* The value of a do_parse! that ends in pw: not_record_ending.
hash_value(scheme, pw) ==
    IF pw.t = "Ok" THEN Ok(pw.rest, PasswordHash(scheme, pw.out)) ELSE pw

\* peek!(alt_complete!(tag!("$2a$") | tag!("$2y$") | tag!("$2b$"))): consumes
\* nothing.
peek_bcrypt(i) ==
    IF \E c \in {"a", "y", "b"} : compare(i, <<"$", "2", c, "$">>) = "Ok"
    THEN Ok(i, <<>>)
    ELSE Error(i, Kind("Alt"))

\* bcrypt_pw: the value is the whole line, prefix included.
bcrypt_pw(i) ==
    and_then(peek_bcrypt(i), hash_value("Bcrypt", not_record_ending(i)))

\* The rest of sha1_pw and md5_pw after their tag!: the value is the text
\* after the tag.
after_tag(scheme, tg) ==
    IF tg.t # "Ok" THEN tg ELSE hash_value(scheme, not_record_ending(tg.rest))

\* sha1_pw with the tag left in the value.
sha1_pw_keeps_tag(i) ==
    and_then(tag(i, <<"{", "S", "H", "A", "}">>),
             hash_value("SHA1", not_record_ending(i)))

sha1_pw(i) == after_tag("SHA1", tag(i, <<"{", "S", "H", "A", "}">>))

md5_pw(i) == after_tag("MD5", tag(i, <<"$", "a", "p", "r", "1", "$">>))

\* crypt_pw: the whole line.
crypt_pw(i) == hash_value("Crypt", not_record_ending(i))

\* password without return_error!: the error of the alternatives is what
\* the caller gets.
password_without_return_error(i) ==
    fix_error(or_else(bcrypt_pw(i), or_else(sha1_pw(i),
              or_else(md5_pw(i), or_else(crypt_pw(i),
              Error(i, Kind("Alt")))))))

\* password: alt!(bcrypt_pw | sha1_pw | md5_pw | crypt_pw) under fix_error!
\* and return_error!(BadPassword).
password(i) ==
    return_error(i, "BadPassword",
        fix_error(or_else(bcrypt_pw(i), or_else(sha1_pw(i),
                  or_else(md5_pw(i), or_else(crypt_pw(i),
                  Error(i, Kind("Alt"))))))))

\* terminated!(is_not!(":"), tag!(":")), given the result of is_not!.
terminated_colon(name) ==
    IF name.t # "Ok" THEN name
    ELSE and_then(tag(name.rest, <<":">>),
                  Ok(slice_from(name.rest, 1), name.out))

\* user
user(i) ==
    return_error(i, "BadUsername", fix_error(terminated_colon(is_not_colon(i))))

\* The pair an entry yields, given the user name and the password's result.
entry_pair(name, pw_hash) ==
    IF pw_hash.t # "Ok" THEN pw_hash ELSE Ok(pw_hash.rest, <<name, pw_hash.out>>)

\* The rest of entry after user.
entry_after_user(u) ==
    IF u.t # "Ok" THEN u ELSE entry_pair(u.out, password(u.rest))

\* entry: user >> password
entry(i) == entry_after_user(user(i))

\* The loop of separated_list!(tag!("\n"), entry) after the first element:
\* the separator, then the next element.
RECURSIVE separated_list_loop(_, _)
RECURSIVE separated_list_sep(_, _, _)
RECURSIVE separated_list_elem(_, _, _, _)

separated_list_loop(input, res) ==
    separated_list_sep(input, res, fix_error(tag(input, <<NL>>)))

separated_list_sep(input, res, sep) ==
    IF sep.t = "Error" THEN Ok(input, res)
    ELSE IF sep.t = "Failure" THEN sep
    ELSE IF input_len(sep.rest) = input_len(input) THEN Ok(input, res)
    ELSE separated_list_elem(input, res, sep.rest, entry(sep.rest))

separated_list_elem(input, res, i2, e) ==
    IF e.t = "Error" THEN Ok(input, res)
    ELSE IF e.t = "Failure" THEN e
    ELSE IF input_len(e.rest) = input_len(i2) THEN Ok(input, res)
    ELSE separated_list_loop(e.rest, Append(res, e.out))

\* separated_list!, given the result of the first element.
separated_list_first(i, first) ==
    IF first.t = "Error" THEN Ok(i, <<>>)
    ELSE IF first.t = "Failure" THEN first
    ELSE IF input_len(first.rest) = input_len(i) THEN Error(i, Kind("SeparatedList"))
    ELSE separated_list_loop(first.rest, <<first.out>>)

separated_list(i) == separated_list_first(i, entry(i))

\* return_error!(GarbageAtEnd, fix_error!(eof!())) after the terminator; the
\* value of entries is the list.
entries_eof(list, term) ==
    IF term.t # "Ok" THEN term
    ELSE and_then(return_error(term.rest, "GarbageAtEnd", fix_error(eof(term.rest))),
                  Ok(term.rest, list.out))

\* terminated!(separated_list!, fix_error!(opt!(line_ending))), then the eof.
entries_terminated(list) ==
    IF list.t # "Ok" THEN list
    ELSE entries_eof(list, fix_error(opt(list.rest, line_ending(list.rest))))

\* entries
entries(i) == entries_terminated(separated_list(i))

\* ParseFailure::default
ParseFailure_default == [kind |-> "Unknown", offset |-> 0, line |-> 0, column |-> 0]

\* impl From<ParseError> for ParseFailure
ParseFailure_from(e) ==
    IF e.code.custom
    THEN [kind |-> e.code.v, offset |-> e.at.off, line |-> e.at.line,
          column |-> get_column(e.at)]
    ELSE ParseFailure_default

\* A collect in which the first pair of a key is the one kept.
collect_first_wins(v) ==
    [k \in {v[j][1] : j \in 1..Len(v)} |->
        v[Min({j \in 1..Len(v) : v[j][1] = k})][2]]

\* entries.into_iter().collect() into a HashMap: a later pair with the same
\* key replaces the earlier one.
collect(v) ==
    [k \in {v[j][1] : j \in 1..Len(v)} |->
        v[Max({j \in 1..Len(v) : v[j][1] = k})][2]]

\* The match of parse_entries on the result of entries.
parse_result(r) ==
    IF r.t = "Ok" THEN [t |-> "Ok", db |-> collect(r.out)]
    ELSE [t |-> "Err", failure |-> ParseFailure_from(r)]

\* parse_entries
parse_entries(text) == parse_result(entries(Span_new(text)))

\* parse_htpasswd_str: PasswordDB(entries), or the ParseFailure.
parse_htpasswd_str(contents) == parse_entries(contents)

----------------
(* PasswordDB::validate and the rendering of its errors                    *)

\* BadCredentials and AuthError values.
NoSuchUser(name) == [t |-> "NoSuchUser", user |-> name]
InvalidPassword == [t |-> "InvalidPassword"]
InsecureStorage == [t |-> "InsecureStorage"]
NotAuthenticated(c) == [t |-> "NotAuthenticated", cred |-> c]
StorageError == [t |-> "StorageError"]

\* What bcrypt::verify can answer: Ok(true), Ok(false) or Err(BcryptError).
VerifyResults == {"true", "false", "err"}

\* validate with a failure of the primitive taken for a mismatch.
validate_error_as_mismatch(table, name, pass, v) ==
    IF name \notin DOMAIN table
    THEN [out |-> [t |-> "Err", e |-> NotAuthenticated(NoSuchUser(name))],
          verify |-> None]
    ELSE IF table[name].scheme = "Bcrypt"
         THEN [out |-> IF v = "true" THEN [t |-> "Ok"]
                       ELSE [t |-> "Err", e |-> NotAuthenticated(InvalidPassword)],
               verify |-> [t |-> "Called", password |-> pass,
                           hash |-> table[name].hash, result |-> v]]
         ELSE [out |-> [t |-> "Err", e |-> NotAuthenticated(InsecureStorage)],
               verify |-> None]

\* validate with a Crypt record compared as plaintext.
validate_plaintext(table, name, pass, v) ==
    IF name \notin DOMAIN table
    THEN [out |-> [t |-> "Err", e |-> NotAuthenticated(NoSuchUser(name))],
          verify |-> None]
    ELSE IF table[name].scheme = "Bcrypt"
         THEN [out |-> IF v = "err" THEN [t |-> "Err", e |-> StorageError]
                       ELSE IF v = "true" THEN [t |-> "Ok"]
                       ELSE [t |-> "Err", e |-> NotAuthenticated(InvalidPassword)],
               verify |-> [t |-> "Called", password |-> pass,
                           hash |-> table[name].hash, result |-> v]]
         ELSE [out |-> IF table[name].scheme = "Crypt" /\ table[name].hash = pass
                       THEN [t |-> "Ok"]
                       ELSE [t |-> "Err", e |-> NotAuthenticated(InsecureStorage)],
               verify |-> None]

\* validate with a missing user reported as a wrong password.
validate_missing_as_invalid(table, name, pass, v) ==
    IF name \notin DOMAIN table
    THEN [out |-> [t |-> "Err", e |-> NotAuthenticated(InvalidPassword)],
          verify |-> None]
    ELSE IF table[name].scheme = "Bcrypt"
         THEN [out |-> IF v = "err" THEN [t |-> "Err", e |-> StorageError]
                       ELSE IF v = "true" THEN [t |-> "Ok"]
                       ELSE [t |-> "Err", e |-> NotAuthenticated(InvalidPassword)],
               verify |-> [t |-> "Called", password |-> pass,
                           hash |-> table[name].hash, result |-> v]]
         ELSE [out |-> [t |-> "Err", e |-> NotAuthenticated(InsecureStorage)],
               verify |-> None]

\* PasswordDB::validate.  v is the answer bcrypt::verify gives if it is
\* called; verify is the call made, None when the primitive is not reached.
validate(table, name, pass, v) ==
    IF name \notin DOMAIN table
    THEN [out |-> [t |-> "Err", e |-> NotAuthenticated(NoSuchUser(name))],
          verify |-> None]
    ELSE IF table[name].scheme = "Bcrypt"
         THEN [out |-> IF v = "err" THEN [t |-> "Err", e |-> StorageError]
                       ELSE IF v = "true" THEN [t |-> "Ok"]
                       ELSE [t |-> "Err", e |-> NotAuthenticated(InvalidPassword)],
               verify |-> [t |-> "Called", password |-> pass,
                           hash |-> table[name].hash, result |-> v]]
         ELSE [out |-> [t |-> "Err", e |-> NotAuthenticated(InsecureStorage)],
               verify |-> None]

\* A rendering that tells a missing user from the other failures.
fmt_AuthError_leaky(e) ==
    IF e.t = "NotAuthenticated" /\ e.cred.t = "NoSuchUser"
    THEN "No such user." ELSE "Authentication failed."

\* impl Display for AuthError
fmt_AuthError(e) == "Authentication failed."

\* impl Display for BadCredentials
fmt_BadCredentials(c) == "Authentication failed."

----------------------------------------------------------------------------
(* Loading and the Watcher                                                 *)

\* impl From<ParseFailure> for LoadFailure, under the ? of load_htpasswd.
LoadFailure_from(r) ==
    IF r.t = "Ok" THEN r
    ELSE [t |-> "Err", failure |-> [t |-> "Parse", pf |-> r.failure]]

\* HtpasswdLoad for Path: read_to_string, then parse_htpasswd_str; io is the
\* outcome of the read.
load_htpasswd(contents, io) ==
    IF io = "err" THEN [t |-> "Err", failure |-> [t |-> "Io"]]
    ELSE LoadFailure_from(parse_htpasswd_str(contents))

\* A Watcher::new without the ?: the Watcher is built around whatever the
\* load returned.
Watcher_new_unchecked(r) == [t |-> "Watcher", current_db |-> r]

\* Watcher::new, given the result of load_htpasswd: the ? returns the
\* failure and there is no Watcher; otherwise the lock holds Ok(db).
Watcher_new(r) == IF r.t = "Ok" THEN [t |-> "Watcher", current_db |-> r] ELSE None

\* PasswordDBSource::get for Watcher: the value in the current_db lock.
get(w) == w.current_db

----------------------------------------------------------------------------
(* The hyper adapter                                                       *)

\* impl Display for ParseErrorKind
fmt_ParseErrorKind(kind) ==
    CASE kind = "BadUsername" -> "badly-formatted user name field (forgot a `:`?)"
      [] kind = "BadPassword" -> "badly-formatted password field"
      [] kind = "GarbageAtEnd" -> "last line in file is not recognized"
      [] kind = "BrokenHtpasswd" -> ".htpasswd didn't parse"
      [] OTHER -> "bug in htpasswd crate"

\* The two arms of impl Display for LoadFailure.  The text of an io::Error
\* comes from the operating system and stands as <io::Error>.
fmt_LoadFailure_arm(f) ==
    IF f.t = "Parse"
    THEN "parse failure:" \o ToString(f.pf.line) \o ":" \o ToString(f.pf.column)
            \o ": " \o fmt_ParseErrorKind(f.pf.kind)
    ELSE "reading: " \o "<io::Error>"

\* impl Display for LoadFailure
fmt_LoadFailure(f) == "loading htpasswd data: " \o fmt_LoadFailure_arm(f)

\* basic_auth_via_htpasswd: authorization is the Authorization<Basic>
\* header of the request, None when the request has none.
basic_auth_via_htpasswd(authorization, table, v) ==
    IF authorization = None
    THEN [t |-> "Err", e |-> NotAuthenticated(InvalidPassword)]
    ELSE validate(table, authorization.username, authorization.password, v).out

\* The Ok(db) arm of Authenticate::call with the failed check forwarded.
call_with_db_forwarding(auth) == [t |-> "Upstream"]

\* The Ok(db) arm of Authenticate::call, given what basic_auth_via_htpasswd
\* returned: the 401 response, or the call to the upstream service.
call_with_db(auth) ==
    IF auth.t # "Ok"
    THEN [t |-> "Response", status |-> 401, body |-> "Unauthorized."]
    ELSE [t |-> "Upstream"]

\* The Err(f) arm of Authenticate::call.
call_without_db(f) ==
    [t |-> "Response", status |-> 500, body |-> fmt_LoadFailure(f)]

\* Authenticate::call, given what source.get() returned.
Authenticate_call(source, authorization, v) ==
    IF source.t = "Ok"
    THEN call_with_db(basic_auth_via_htpasswd(authorization, source.db, v))
    ELSE call_without_db(source.failure)

----------------------------------------------------------------------------
(* The inputs                                                              *)

Users == {<<"u">>, <<"v">>}

\* Password fields: empty, plain, the three bcrypt prefixes, the {SHA} and
\* $apr1$ tags with and without a value, a partial prefix, a CR ending.
Fields ==
    { <<>>, <<"x">>,
      <<"$", "2", "y", "$", "x">>, <<"$", "2", "a", "$", "x">>,
      <<"$", "2", "b", "$", "x">>,
      <<"{", "S", "H", "A", "}">>, <<"{", "S", "H", "A", "}", "x">>,
      <<"$", "a", "p", "r", "1", "$">>, <<"$", "a", "p", "r", "1", "$", "x">>,
      <<"$", "2", "x">>, <<"x", CR>> }

\* The lines a file is made of: records, records with an empty user name,
\* lines without a colon (one of them empty), and a record whose user name
\* holds a CR.
Lines ==
    {n \o <<":">> \o f : n \in Users, f \in Fields}
        \cup {<<":", "x">>, <<":">>, <<>>, <<"w">>, <<"a", CR, ":", "x">>}

\* The credentials submitted to validate.
Names == Users \cup {<<"z">>}
Passwords == {<<"x">>, <<"p">>}

\* The Authorization<Basic> header of a request: absent, or credentials.
Authorizations ==
    {None} \cup {[username |-> n, password |-> p] : n \in Names, p \in Passwords}

----------------------------------------------------------------------------
(* The state machine                                                       *)

Init ==
    /\ written = <<>>
    /\ file = <<>>
    /\ db = None
    /\ request = None
    /\ outcome = None
    /\ verify_call = None
    /\ watcher = None
    /\ new_result = None
    /\ pending = 0
    /\ call = None
    /\ reply = None
    /\ upstream_calls = 0

\* The environment writes one more line to the backing file.  Once a Watcher
\* exists, the write raises a file-change notification.
WriteLine(l) ==
    /\ Len(written) < MaxLines
    /\ db = None
    /\ call = None
    /\ new_result = None \/ (watcher # None /\ pending < MaxPending)
    /\ written' = Append(written, l)
    /\ file' = IF written = <<>> THEN l ELSE file \o <<NL>> \o l
    /\ pending' = IF watcher # None THEN pending + 1 ELSE pending
    /\ UNCHANGED <<db, request, outcome, verify_call, watcher, new_result,
                   call, reply, upstream_calls>>

\* parse_htpasswd_str(contents of the file)
ParseHtpasswdStr ==
    /\ db = None
    /\ call = None
    /\ new_result = None
    /\ db' = parse_htpasswd_str(file)
    /\ UNCHANGED <<written, file, request, outcome, verify_call, watcher,
                   new_result, pending, call, reply, upstream_calls>>

\* db.validate(name, pass); v is what bcrypt::verify answers if it is called.
Validate(name, pass) ==
    /\ db.t = "Ok"
    /\ request = None
    /\ request' = [t |-> "Validate", user |-> name, password |-> pass]
    /\ \E v \in VerifyResults :
        /\ outcome' = validate(db.db, name, pass, v).out
        /\ verify_call' = validate(db.db, name, pass, v).verify
    /\ UNCHANGED <<written, file, db, watcher, new_result, pending,
                   call, reply, upstream_calls>>

\* Watcher::new(file): load_htpasswd()?, then the lock holds Ok(db).
WatcherNew ==
    /\ new_result = None
    /\ db = None
    /\ call = None
    /\ \E io \in {"ok", "err"} :
        /\ watcher' = Watcher_new(load_htpasswd(file, io))
        /\ new_result' = IF watcher' = None THEN load_htpasswd(file, io)
                         ELSE [t |-> "Ok"]
    /\ UNCHANGED <<written, file, db, request, outcome, verify_call, pending,
                   call, reply, upstream_calls>>

\* A file-change notification is delivered.  The Watcher registers no
\* handler: nothing writes current_db after Watcher::new.
Notify ==
    /\ pending > 0
    /\ pending' = pending - 1
    /\ UNCHANGED <<written, file, db, request, outcome, verify_call, watcher,
                   new_result, call, reply, upstream_calls>>

\* What Authenticate::call leaves behind, given the answer it computed.
Answered(source, authorization, v, answer) ==
    /\ call' = [source |-> source, authorization |-> authorization,
                verify |-> v]
    /\ reply' = answer
    /\ upstream_calls' = IF answer.t = "Upstream" THEN upstream_calls + 1
                         ELSE upstream_calls

\* Authenticate::call(request), with a source that loads the backing file
\* on every get(); io is the outcome of the read and v what bcrypt::verify
\* answers if it is called.
AuthenticateCall(authorization) ==
    /\ call = None
    /\ db = None
    /\ new_result = None
    /\ \E io \in {"ok", "err"}, v \in VerifyResults :
        Answered(load_htpasswd(file, io), authorization, v,
                 Authenticate_call(load_htpasswd(file, io), authorization, v))
    /\ UNCHANGED <<written, file, db, request, outcome, verify_call, watcher,
                   new_result, pending>>

Next ==
    \/ \E l \in Lines : WriteLine(l)
    \/ ParseHtpasswdStr
    \/ \E n \in Names, p \in Passwords : Validate(n, p)
    \/ WatcherNew
    \/ Notify
    \/ \E a \in Authorizations : AuthenticateCall(a)

Spec == Init /\ [][Next]_vars

----------------------------------------------------------------------------
(* The format as the specification states it, read line by line            *)

StartsWith(f, tg) == Len(f) >= Len(tg) /\ SubSeq(f, 1, Len(tg)) = tg
Drop(f, n) == SubSeq(f, n + 1, Len(f))

\* The place of the first ':' of a line, 0 when it has none.
FirstColon(l) ==
    IF \E k \in 1..Len(l) : l[k] = ":"
    THEN Min({k \in 1..Len(l) : l[k] = ":"}) ELSE 0

LineUser(l) == SubSeq(l, 1, FirstColon(l) - 1)
LineField(l) == Drop(l, FirstColon(l))

\* The fixed-priority prefix table of the password field.
Classified(f) ==
    IF \E c \in {"a", "y", "b"} : StartsWith(f, <<"$", "2", c, "$">>)
    THEN PasswordHash("Bcrypt", f)
    ELSE IF StartsWith(f, <<"{", "S", "H", "A", "}">>)
    THEN PasswordHash("SHA1", Drop(f, 5))
    ELSE IF StartsWith(f, <<"$", "a", "p", "r", "1", "$">>)
    THEN PasswordHash("MD5", Drop(f, 6))
    ELSE PasswordHash("Crypt", f)

\* A well-formed record: a non-empty user name, a ':', and a field that
\* yields a non-empty value and holds no line terminator.
WellFormed(l) ==
    /\ FirstColon(l) > 1
    /\ Classified(LineField(l)).hash # <<>>
    /\ \A k \in 1..Len(LineField(l)) : LineField(l)[k] \notin {CR, NL}

\* The first k lines are well-formed records.
WellFormedUpTo(k) == \A j \in 1..k : WellFormed(written[j])

\* The byte offset at which line k of the file starts.
RECURSIVE LineStart(_)
LineStart(k) == IF k = 1 THEN 0 ELSE LineStart(k - 1) + Len(written[k - 1]) + 1

----------------------------------------------------------------------------
(* Properties                                                              *)

\* C1: an input of one or more well-formed records with distinct user names,
\* separated by single newlines and without a trailing terminator, parses to
\* the table that has exactly those user names as keys, each mapped to the
\* scheme the prefix table gives, with the hash text verbatim (the whole
\* field for Bcrypt and Crypt, the text after the tag for SHA1 and MD5).
C1_RoundTrip ==
    ( /\ db # None
      /\ written # <<>>
      /\ WellFormedUpTo(Len(written))
      /\ \A j, k \in 1..Len(written) :
            LineUser(written[j]) = LineUser(written[k]) => j = k )
    => db = [t |-> "Ok",
             db |-> [n \in {LineUser(written[k]) : k \in 1..Len(written)} |->
                        Classified(LineField(
                            written[CHOOSE k \in 1..Len(written) :
                                        LineUser(written[k]) = n]))]]

C1_Witness ==
    /\ db.t = "Ok"
    /\ Len(written) = 2
    /\ WellFormedUpTo(2)
    /\ LineUser(written[1]) # LineUser(written[2])
    /\ \E a, b \in DOMAIN db.db :
          db.db[a].scheme = "Bcrypt" /\ db.db[b].scheme = "SHA1"

\* C2: for a user with a Bcrypt record, validate calls bcrypt::verify with
\* the submitted password and the stored hash and returns what it dictates:
\* Ok on a match, NotAuthenticated(InvalidPassword) on a clean mismatch,
\* StorageError when the primitive fails; nothing else.
C2_BcryptFollowsVerify ==
    ( /\ request # None
      /\ request.user \in DOMAIN db.db
      /\ db.db[request.user].scheme = "Bcrypt" )
    => /\ verify_call.t = "Called"
       /\ verify_call.password = request.password
       /\ verify_call.hash = db.db[request.user].hash
       /\ outcome =
            IF verify_call.result = "true" THEN [t |-> "Ok"]
            ELSE IF verify_call.result = "false"
                 THEN [t |-> "Err", e |-> NotAuthenticated(InvalidPassword)]
                 ELSE [t |-> "Err", e |-> StorageError]

C2_Witness ==
    /\ request # None
    /\ verify_call.t = "Called"
    /\ verify_call.result = "err"
    /\ outcome = [t |-> "Err", e |-> StorageError]

\* C3: for a user whose record is of a legacy scheme (SHA1, MD5 or Crypt),
\* validate returns NotAuthenticated(InsecureStorage) whatever the password,
\* the stored text itself included, and never calls bcrypt::verify.
C3_LegacyIsInsecure ==
    ( /\ request # None
      /\ request.user \in DOMAIN db.db
      /\ db.db[request.user].scheme \in {"SHA1", "MD5", "Crypt"} )
    => /\ outcome = [t |-> "Err", e |-> NotAuthenticated(InsecureStorage)]
       /\ verify_call = None

C3_Witness ==
    /\ request # None
    /\ request.user \in DOMAIN db.db
    /\ db.db[request.user].scheme = "Crypt"
    /\ db.db[request.user].hash = request.password
    /\ outcome = [t |-> "Err", e |-> NotAuthenticated(InsecureStorage)]

\* C4: for a user name that is not a key of the table, validate returns
\* NotAuthenticated(NoSuchUser) for every password and never calls
\* bcrypt::verify.
C4_NoSuchUser ==
    (request # None /\ request.user \notin DOMAIN db.db)
    => /\ outcome = [t |-> "Err", e |-> NotAuthenticated(NoSuchUser(request.user))]
       /\ verify_call = None

C4_Witness ==
    /\ request # None
    /\ request.user \notin DOMAIN db.db
    /\ DOMAIN db.db # {}
    /\ outcome.t = "Err"

\* The failures validate can return.
AuthErrors ==
    {StorageError}
        \cup {NotAuthenticated(c) :
                c \in {InvalidPassword, InsecureStorage}
                        \cup {NoSuchUser(n) : n \in Names}}

\* C5: the rendering of a validation failure is the same text whatever the
\* failure: the one validate returned renders as every other AuthError does,
\* and as the BadCredentials inside it does.
C5_Redaction ==
    outcome.t = "Err"
    => \A e \in AuthErrors :
          /\ fmt_AuthError(outcome.e) = fmt_AuthError(e)
          /\ e.t = "NotAuthenticated"
                => fmt_BadCredentials(e.cred) = fmt_AuthError(outcome.e)

C5_Witness ==
    /\ outcome.t = "Err"
    /\ outcome.e.t = "NotAuthenticated"
    /\ outcome.e.cred.t = "NoSuchUser"

\* C6: a line with an empty user name or without any ':' whose earlier
\* lines are all well-formed records makes parse fail with BadUsername at
\* the first byte of that line (its offset, its line, column 1); the line is
\* never accepted, merged into another record or dropped.
C6_BadUsernameAtRecord ==
    \A k \in 1..Len(written) :
        ( /\ db # None
          /\ WellFormedUpTo(k - 1)
          /\ FirstColon(written[k]) <= 1 )
        => db = [t |-> "Err",
                 failure |-> [kind |-> "BadUsername", offset |-> LineStart(k),
                              line |-> k, column |-> 1]]

\* C7: when the well-formed records parse, the same input followed by one
\* '\n' parses too and yields the same table.
C7_TrailingNewline ==
    ( /\ db # None
      /\ Len(written) >= 2
      /\ written[Len(written)] = <<>>
      /\ WellFormedUpTo(Len(written) - 1)
      /\ parse_htpasswd_str(SubSeq(file, 1, Len(file) - 1)).t = "Ok" )
    => db = parse_htpasswd_str(SubSeq(file, 1, Len(file) - 1))

\* C8: when bytes are left over after the last valid record and at most one
\* trailing line terminator, parse fails with kind GarbageAtEnd.
C8_GarbageAtEnd ==
    \A k \in 1..(Len(written) - 1) :
        ( /\ db # None
          /\ WellFormedUpTo(k)
          /\ ~WellFormed(written[k + 1])
          /\ ~(k + 1 = Len(written) /\ written[k + 1] = <<>>) )
        => db.t = "Err" /\ db.failure.kind = "GarbageAtEnd"

\* C9: a record with a user name whose password field yields no value
\* (nothing after the ':', or nothing after a {SHA} or $apr1$ tag), after
\* well-formed records only, makes parse fail with BadPassword at the first
\* byte of the field: the offset after the record's ':', the record's line,
\* column = length of the user name + 2.  No stored hash is empty.
C9_BadPassword ==
    /\ \A k \in 1..Len(written) :
        ( /\ db # None
          /\ WellFormedUpTo(k - 1)
          /\ FirstColon(written[k]) > 1
          /\ Classified(LineField(written[k])).hash = <<>> )
        => db = [t |-> "Err",
                 failure |-> [kind |-> "BadPassword",
                              offset |-> LineStart(k) + FirstColon(written[k]),
                              line |-> k,
                              column |-> Len(LineUser(written[k])) + 2]]
    /\ db.t = "Ok" => \A n \in DOMAIN db.db : db.db[n].hash # <<>>

C9_Witness ==
    /\ db.t = "Err"
    /\ db.failure.kind = "BadPassword"
    /\ db.failure.line = 2
    /\ db.failure.column = 3
    /\ WellFormed(written[1])
    /\ LineField(written[2]) = <<"{", "S", "H", "A", "}">>

\* The LoadFailure a Watcher holds: its lock is the only place for one.
RecordedFailure(w) == IF get(w).t = "Err" THEN get(w).failure ELSE None

\* C10: when a file-change notification has been handled, get() returns the
\* table of the most recent successful load: either the table of the file as
\* it now is, or the table published before together with the LoadFailure
\* of the reload.
C10_LastKnownGoodWins ==
    [][pending' < pending
        => \/ get(watcher') = parse_htpasswd_str(file) /\ get(watcher').t = "Ok"
           \/ /\ get(watcher') = get(watcher)
              /\ get(watcher').t = "Ok"
              /\ RecordedFailure(watcher') # None]_vars

\* C11: Watcher::new is all-or-nothing.  The step that returns from
\* Watcher::new either returns the failure of the read (Io) or of the parse
\* (Parse, with the ParseFailure of the file) and leaves no Watcher, or
\* returns a Watcher whose lock holds Ok of the table parsed from the file;
\* and a Watcher never holds anything but an Ok table.
C11_AllOrNothing ==
    /\ [](watcher # None => get(watcher).t = "Ok" /\ new_result.t = "Ok")
    /\ [][new_result = None /\ new_result' # None
            => \/ /\ new_result'.t = "Err"
                  /\ watcher' = None
                  /\ \/ new_result'.failure.t = "Io"
                     \/ /\ new_result'.failure.t = "Parse"
                        /\ parse_htpasswd_str(file).t = "Err"
                        /\ new_result'.failure.pf = parse_htpasswd_str(file).failure
               \/ /\ new_result'.t = "Ok"
                  /\ watcher' # None
                  /\ parse_htpasswd_str(file).t = "Ok"
                  /\ get(watcher') = parse_htpasswd_str(file)]_vars

C11_Witness ==
    /\ watcher # None
    /\ new_result.t = "Ok"
    /\ get(watcher).t = "Ok"
    /\ Cardinality(DOMAIN get(watcher).db) = 2

\* C12: the body Authenticate::call sends never depends on the detail of a
\* failure.  When the table could not be obtained, the response is the one
\* any other LoadFailure would have produced (another kind, line or column,
\* a failed read); when the check of the credentials failed, the body is the
\* fixed text whatever the AuthError, the user name and the stored scheme.
C12_NoFailureDetail ==
    call # None =>
        /\ call.source.t = "Err" =>
               \A l \in Lines, io \in {"ok", "err"} :
                   load_htpasswd(l, io).t = "Err" =>
                       reply = Authenticate_call(load_htpasswd(l, io),
                                                 call.authorization, call.verify)
        /\ call.source.t = "Ok" /\ reply.t = "Response" =>
               reply.body = "Unauthorized."

\* What basic_auth_via_htpasswd answers for the request of the recorded call.
CallAuth ==
    IF call.authorization = None
    THEN [t |-> "Err", e |-> NotAuthenticated(InvalidPassword)]
    ELSE validate(call.source.db, call.authorization.username,
                  call.authorization.password, call.verify).out

\* C13: Authenticate::call calls the upstream service exactly when
\* source.get() returned a table and validate accepted the Basic credentials
\* of the request.  A request without the header, or one whose credentials
\* validate rejects with any AuthError, gets 401 with the body
\* "Unauthorized."; a failure to obtain the table gets 500; in both cases
\* the upstream service is not called.
C13_ForwardOnlyWhenValid ==
    call # None =>
        /\ upstream_calls \in {0, 1}
        /\ upstream_calls = 1 <=>
               /\ call.source.t = "Ok"
               /\ call.authorization # None
               /\ CallAuth.t = "Ok"
        /\ upstream_calls = 1 <=> reply.t = "Upstream"
        /\ call.source.t = "Ok" /\ (call.authorization = None \/ CallAuth.t = "Err")
               => /\ reply = [t |-> "Response", status |-> 401,
                              body |-> "Unauthorized."]
                  /\ upstream_calls = 0
        /\ call.source.t = "Err"
               => /\ reply.t = "Response"
                  /\ reply.status = 500
                  /\ upstream_calls = 0

C13_Witness ==
    /\ call # None
    /\ call.source.t = "Ok"
    /\ call.authorization # None
    /\ call.authorization.username \in DOMAIN call.source.db
    /\ call.source.db[call.authorization.username].scheme = "Bcrypt"
    /\ call.verify = "true"
    /\ upstream_calls = 1

\* C14: an input of well-formed records in which a user name occurs more
\* than once parses successfully; the table has one key per distinct user
\* name, and a repeated name maps to the classified hash of its last
\* occurrence in the input.
C14_LastDuplicateWins ==
    ( /\ db # None
      /\ WellFormedUpTo(Len(written))
      /\ \E j, k \in 1..Len(written) :
            j < k /\ LineUser(written[j]) = LineUser(written[k]) )
    => /\ db.t = "Ok"
       /\ DOMAIN db.db = {LineUser(written[k]) : k \in 1..Len(written)}
       /\ Cardinality(DOMAIN db.db) < Len(written)
       /\ \A k \in 1..Len(written) :
             (\A j \in (k + 1)..Len(written) :
                 LineUser(written[j]) # LineUser(written[k]))
             => db.db[LineUser(written[k])] = Classified(LineField(written[k]))

C14_Witness ==
    /\ db.t = "Ok"
    /\ Len(written) = 2
    /\ WellFormedUpTo(2)
    /\ LineUser(written[1]) = LineUser(written[2])
    /\ Classified(LineField(written[1])).scheme = "SHA1"
    /\ Cardinality(DOMAIN db.db) = 1
    /\ db.db[LineUser(written[2])].scheme = "Bcrypt"

\* C15: every ParseFailure parse_entries returns is well-formed.  Its kind is
\* BadUsername, BadPassword or GarbageAtEnd, never Unknown or BrokenHtpasswd
\* (the all-zero default is not returned); its offset lies between 0 and the
\* length of the input; its line is 1 plus the number of newline bytes
\* before the offset; its column is at least 1.
C15_FailureWellFormed ==
    db.t = "Err" =>
        /\ db.failure.kind \in {"BadUsername", "BadPassword", "GarbageAtEnd"}
        /\ db.failure # ParseFailure_default
        /\ db.failure.offset \in 0..Len(file)
        /\ db.failure.line =
               1 + Cardinality({k \in 1..db.failure.offset : file[k] = NL})
        /\ db.failure.column >= 1

C15_Witness ==
    /\ db.t = "Err"
    /\ db.failure.kind = "GarbageAtEnd"
    /\ db.failure.line = 2
    /\ db.failure.offset < Len(file)

====
